---- MODULE Spec2Model ----
(***************************************************************************)
(* Model of the field-herper data fetcher (src/index.js): a Cloud Function *)
(* `main` that answers 202, lists the species of one random taxon from     *)
(* iNaturalist page by page (fetchAllINaturalistSpecies over               *)
(* fetchWithRetry), and for each species in a shuffled order reads its     *)
(* Firestore document, resolves images / seasonality / Wikipedia HTML      *)
(* (reusing stored values) and writes the document with {merge: true}.     *)
(*                                                                         *)
(* Strings that the code inspects or rewrites (error messages, photo URLs, *)
(* species names) are sequences of tokens, so that includes() and          *)
(* replace() are computed; other strings are TLA+ strings.                 *)
(***************************************************************************)
EXTENDS Integers, Sequences, FiniteSets, TLC

VARIABLES
  inat,     \* upstream iNaturalist /taxa listing per taxon id: [total, sp]
  observed, \* upstream iNaturalist: observations posted since the start
  faults,   \* the errors the network may raise on a request (set at Init)
  store,    \* Firestore collection "collection": doc id -> [exists, data]
  pc,       \* per invocation of main: the await point it is suspended at
  resp,     \* per invocation: HTTP status sent to the caller (0: none yet)
  local,    \* per invocation: locals of main / fetchAll... / processSpecies
  fetch,    \* per invocation: the frame of the fetchWithRetry call in progress
  hist      \* history: what the external editor set, write and call counts

vars == <<inat, observed, faults, store, pc, resp, local, fetch, hist>>

---------------------------------------------------------------------------
(* Bounds of the model *)

\* invocations of main (HTTP requests) in one behaviour
MaxRuns == 2
\* largest number of raw entries of an upstream listing in SpecPages
MaxTotal == 200
\* largest `retries` argument given to fetchWithRetry in SpecRetry
MaxRetries == 5
\* largest `maxImages` argument given to fetchObservationImages in SpecImages
MaxImagesArg == 6
\* largest number of observations in a payload of SpecImages
MaxObs == 2
\* largest number of observations posted upstream during a behaviour of SpecOverlap
MaxPosted == 1

Runs == 1..MaxRuns

---------------------------------------------------------------------------
(* Program constants *)

\* fetchWithRetry(url, retries = 5, delayMs = 1000)
DefaultRetries == 5
DefaultDelayMs == 1000
\* const perPage = 100
PerPage == 100
\* fetchObservationImages(speciesId, maxImages = 5)
DefaultMaxImages == 5
\* error.response?.status === 429
RateLimitStatus == 429
\* res.status(202)
Accepted == 202

\* const taxa = [...] of main
taxa ==
  << [id |-> 27880, category |-> "Caecilians",   iconicTaxon |-> "Amphibia"],
     [id |-> 20979, category |-> "Frogs",        iconicTaxon |-> "Amphibia"],
     [id |-> 26718, category |-> "Salamanders",  iconicTaxon |-> "Amphibia"],
     [id |-> 26039, category |-> "Crocodilians", iconicTaxon |-> "Reptilia"],
     [id |-> 85552, category |-> "Lizards",      iconicTaxon |-> "Reptilia"],
     [id |-> 85553, category |-> "Snakes",       iconicTaxon |-> "Reptilia"],
     [id |-> 26162, category |-> "Tuataras",     iconicTaxon |-> "Reptilia"],
     [id |-> 39532, category |-> "Turtles",      iconicTaxon |-> "Reptilia"] >>

TaxonIds == {taxa[i].id : i \in DOMAIN taxa}

---------------------------------------------------------------------------
(* Values *)

\* an absent URL (null, undefined or ""): all falsy in the code
NoUrl == <<>>
\* null returned by fetchWikipediaMobileHTML
Null == "null"
\* a document with no field
NoFields == [k \in {} |-> 0]
\* a snapshot of a document that does not exist
NoDoc == [exists |-> FALSE, data |-> NoFields]

\* s.includes(pat) on token sequences
Includes(s, pat) ==
  \E i \in 0..(Len(s) - Len(pat)) : SubSeq(s, i + 1, i + Len(pat)) = pat

\* s.replace(a, b) with a string pattern: the first occurrence only
ReplaceFirst(s, a, b) ==
  IF \E i \in DOMAIN s : s[i] = a
  THEN LET i == CHOOSE k \in DOMAIN s : s[k] = a /\ \A j \in 1..(k - 1) : s[j] # a
       IN [s EXCEPT ![i] = b]
  ELSE s

\* base ^ exp on naturals (Math.pow)
RECURSIVE Pow(_, _)
Pow(base, exp) == IF exp = 0 THEN 1 ELSE base * Pow(base, exp - 1)

\* array.includes(x)
Contains(seq, x) == \E i \in DOMAIN seq : seq[i] = x

---------------------------------------------------------------------------
(* Errors of axios.get, as the fields fetchWithRetry reads:                *)
(* error.response?.status (0: no response), error.code ("": none),         *)
(* error.message                                                           *)

E429 == [status |-> 429, code |-> "ERR_BAD_REQUEST",
         message |-> <<"Request", "failed", "with", "status", "code", "429">>]
E404 == [status |-> 404, code |-> "ERR_BAD_REQUEST",
         message |-> <<"Request", "failed", "with", "status", "code", "404">>]
E500 == [status |-> 500, code |-> "ERR_BAD_RESPONSE",
         message |-> <<"Request", "failed", "with", "status", "code", "500">>]
EConnReset == [status |-> 0, code |-> "ECONNRESET",
               message |-> <<"read", "ECONNRESET">>]
EConnAborted == [status |-> 0, code |-> "ECONNABORTED",
                 message |-> <<"Request", "aborted">>]
ESocketHangUp == [status |-> 0, code |-> "",
                  message |-> <<"socket", "hang", "up">>]
ETls == [status |-> 0, code |-> "",
         message |-> <<"Client", "network", "socket", "disconnected", "before",
                       "secure", "TLS", "connection", "was", "established">>]
EDns == [status |-> 0, code |-> "ENOTFOUND",
         message |-> <<"getaddrinfo", "ENOTFOUND", "api.inaturalist.org">>]

\* every failure the network can raise on one request
AllFaults == {E429, E500, EConnReset, EConnAborted, ESocketHangUp, ETls, EDns}
\* the failures injected in the pipeline specification
PipelineFaults == {E429, EDns}

\* no error caught
NoError == [status |-> 0, code |-> "", message |-> <<>>]

---------------------------------------------------------------------------
(* Upstream data: what the three iNaturalist endpoints and Wikipedia hold. *)
(* It does not change during a behaviour, but for the observations posted  *)
(* after the start (NewObservation), which only SpecOverlap lets happen.   *)

PhotoUrl(n, size) == <<"https://inaturalist-open-data/photos/", ToString(n), "/", size, ".jpg">>

\* one entry of /v1/taxa results of rank species
SpeciesEntry(id) ==
  CASE id = 1 -> [id |-> 1, rank |-> "species", name |-> <<"Rana", " ", "pipiens">>,
                  preferred_common_name |-> "Northern Leopard Frog",
                  default_photo_medium_url |-> PhotoUrl(10, "medium")]
    [] id = 2 -> [id |-> 2, rank |-> "species", name |-> <<"Hyla", " ", "versicolor">>,
                  preferred_common_name |-> "",
                  default_photo_medium_url |-> NoUrl]
    [] id = 3 -> [id |-> 3, rank |-> "species", name |-> <<"Bufo", " ", "exsul">>,
                  preferred_common_name |-> "Black Toad",
                  default_photo_medium_url |-> PhotoUrl(30, "medium")]
    [] OTHER  -> [id |-> id, rank |-> "species", name |-> <<"Species", " ", ToString(id)>>,
                  preferred_common_name |-> "",
                  default_photo_medium_url |-> NoUrl]

\* an entry of another rank, which upstream may return although rank=species is asked
OtherRankEntry(pos) ==
  [id |-> 1000 + pos, rank |-> "genus", name |-> <<"Genus", " ", ToString(pos)>>,
   preferred_common_name |-> "", default_photo_medium_url |-> NoUrl]

\* the raw listing of a taxon: d.total entries, entry i being the species d.sp[i]
\* where d.sp is defined and an entry of another rank elsewhere
RawListing(d) ==
  [i \in 1..d.total |-> IF i \in DOMAIN d.sp THEN SpeciesEntry(d.sp[i]) ELSE OtherRankEntry(i)]

\* page `page` (from 1) of a listing served per_page entries at a time
PageOf(listing, perPage, page) ==
  SubSeq(listing, (page - 1) * perPage + 1,
         IF page * perPage < Len(listing) THEN page * perPage ELSE Len(listing))

EmptyListing == [total |-> 0, sp |-> <<>>]

\* the listings of the pipeline specification: two frogs on one short page, and
\* a snake listing of exactly one full page whose last entry is the only species
PipelineInat ==
  [t \in TaxonIds |->
     CASE t = 20979 -> [total |-> 2, sp |-> <<1, 3>>]
       [] t = 85553 -> [total |-> PerPage, sp |-> (PerPage :> 4)]
       [] OTHER     -> EmptyListing]

\* /v1/observations results per species: photos (url) and taxon.default_photo.medium_url
Observations(id) ==
  CASE id = 1 -> << [photos |-> << [url |-> PhotoUrl(11, "square")],
                                   [url |-> PhotoUrl(11, "square")],
                                   [url |-> PhotoUrl(12, "square")] >>,
                     taxon_default_photo_medium_url |-> PhotoUrl(10, "medium")],
                    [photos |-> << [url |-> PhotoUrl(13, "original")] >>,
                     taxon_default_photo_medium_url |-> PhotoUrl(10, "medium")] >>
    [] id = 2 -> << [photos |-> << [url |-> PhotoUrl(21, "square")] >>,
                     taxon_default_photo_medium_url |-> NoUrl] >>
    [] id = 4 -> << [photos |-> <<>>,
                     taxon_default_photo_medium_url |-> PhotoUrl(40, "medium")] >>
    [] OTHER  -> <<>>

\* the k-th observation posted after the start for a species: one new photo
PostedObservation(id, k) ==
  [photos |-> << [url |-> PhotoUrl(100 * id + k, "square")] >>,
   taxon_default_photo_medium_url |-> NoUrl]

\* /v1/observations results now, order=desc&order_by=created_at: the observations
\* posted since the start, newest first, before the others; only a species that
\* has observations gets new ones
ObservationsNow(id) ==
  IF Observations(id) = <<>> THEN <<>>
  ELSE [k \in 1..observed |-> PostedObservation(id, observed + 1 - k)] \o Observations(id)

\* /v1/observations/histogram results per species
Histogram(id) ==
  CASE id = 1 -> <<3, 9, 1>>
    [] id = 3 -> <<2>>
    [] id = 4 -> <<5>>
    [] OTHER  -> <<>>

\* the titles Wikipedia has a page for, and the page
WikiTitles == { <<"Rana", "_", "pipiens">>, <<"Bufo", "_", "exsul">> }
WikiPage(title) == "<html>" \o title[1] \o " " \o title[Len(title)] \o "</html>"

---------------------------------------------------------------------------
(* URLs: the text (href) and the parts the upstream server reads           *)

TaxaUrl(taxonId, iconicTaxon, perPage, page) ==
  [api |-> "taxa", key |-> taxonId, page |-> page, title |-> <<>>,
   href |-> "https://api.inaturalist.org/v1/taxa?taxon_id=" \o ToString(taxonId)
            \o "&rank=species&is_active=true&iconic_taxa=" \o iconicTaxon
            \o "&per_page=" \o ToString(perPage) \o "&page=" \o ToString(page)]

ObservationsUrl(speciesId) ==
  [api |-> "observations", key |-> speciesId, page |-> 0, title |-> <<>>,
   href |-> "https://api.inaturalist.org/v1/observations?taxon_id=" \o ToString(speciesId)
            \o "&per_page=30&photos=true&order=desc&order_by=created_at"]

HistogramUrl(speciesId) ==
  [api |-> "histogram", key |-> speciesId, page |-> 0, title |-> <<>>,
   href |-> "https://api.inaturalist.org/v1/observations/histogram?taxon_id="
            \o ToString(speciesId) \o "&interval=month_of_year"]

\* encodeURIComponent on one token: the hybrid sign is percent-encoded
EncodeToken(tok) == IF tok = "x-hybrid" THEN "%C3%97" ELSE tok

\* encodeURIComponent(scientificName.replace(/ /g, "_"))
EncodedTitle(scientificName) ==
  [i \in DOMAIN scientificName |->
     EncodeToken(IF scientificName[i] = " " THEN "_" ELSE scientificName[i])]

\* the text of a sequence of tokens
RECURSIVE JoinTokens(_)
JoinTokens(tokens) ==
  IF tokens = <<>> THEN "" ELSE Head(tokens) \o JoinTokens(Tail(tokens))

WikipediaUrl(scientificName) ==
  [api |-> "wikipedia", key |-> 0, page |-> 0, title |-> EncodedTitle(scientificName),
   href |-> "https://en.wikipedia.org/api/rest_v1/page/mobile-html/"
            \o JoinTokens(EncodedTitle(scientificName))]

NoUrlYet == [api |-> "", key |-> 0, page |-> 0, title |-> <<>>, href |-> ""]

\* what the upstream server answers to a GET of url when the network does not fail
Serve(url) ==
  CASE url.api = "taxa" ->
         [ok |-> TRUE, error |-> NoError,
          data |-> [results |-> PageOf(RawListing(inat[url.key]), PerPage, url.page)]]
    [] url.api = "observations" ->
         [ok |-> TRUE, error |-> NoError, data |-> [results |-> ObservationsNow(url.key)]]
    [] url.api = "histogram" ->
         [ok |-> TRUE, error |-> NoError, data |-> [results |-> Histogram(url.key)]]
    [] OTHER ->
         IF url.title \in WikiTitles
         THEN [ok |-> TRUE, error |-> NoError, data |-> WikiPage(url.title)]
         ELSE [ok |-> FALSE, error |-> E404, data |-> <<>>]

---------------------------------------------------------------------------
(* fetchWithRetry                                                          *)

\* faulty variant: the catch block retries whatever the error is
IsRetryable_AnyError(error) == TRUE

\* the test of the catch block: isRateLimit || isConnReset || isSocketHangup || isTransientTLS
IsRetryable(error) ==
  LET isRateLimit == error.status = RateLimitStatus
      isConnReset == error.code = "ECONNRESET"
      isSocketHangup == \/ error.code = "ECONNABORTED"
                        \/ Includes(error.message, <<"socket", "hang", "up">>)
      isTransientTLS ==
        Includes(error.message, <<"socket", "disconnected", "before", "secure",
                                  "TLS", "connection", "was", "established">>)
  IN isRateLimit \/ isConnReset \/ isSocketHangup \/ isTransientTLS

\* faulty variant: the delay grows linearly with the attempt
WaitTime_Linear(delayMs, attempt) == delayMs * (attempt + 1)

\* const waitTime = delayMs * Math.pow(2, attempt)
WaitTime(delayMs, attempt) == delayMs * Pow(2, attempt)

\* new Error(`Failed after ${retries} attempts: ${url}`)
ExhaustedError(retries, url) ==
  [status |-> 0, code |-> "",
   message |-> <<"Failed", "after", ToString(retries), "attempts:", url.href>>]

\* faulty variant: one attempt too many
LoopCondition_OffByOne(attempt, retries) == attempt <= retries

\* for (...; attempt < retries; ...)
LoopCondition(attempt, retries) == attempt < retries

\* no call of fetchWithRetry in progress
NoFetch ==
  [st |-> "none", url |-> NoUrlYet, retries |-> 0, delayMs |-> 0, attempt |-> 0,
   nreq |-> 0, waited |-> 0, waitTime |-> 0, error |-> NoError, data |-> <<>>]

\* the frame on entry: attempt = 0; nreq counts the axios.get calls, waited the
\* delays completed
CallFetchWithRetry(url, retries, delayMs) ==
  [NoFetch EXCEPT !.st = "active", !.url = url, !.retries = retries, !.delayMs = delayMs]

\* the failures one request to url can end in: a network fault, or upstream's own
\* error answer
RequestErrors(url) == faults \cup (IF Serve(url).ok THEN {} ELSE {Serve(url).error})

\* attempt < retries is false: throw new Error("Failed after ...")
FetchLoopExit(r) ==
  /\ fetch[r].st = "active"
  /\ ~LoopCondition(fetch[r].attempt, fetch[r].retries)
  /\ fetch' = [fetch EXCEPT ![r].st = "thrown",
                            ![r].error = ExhaustedError(fetch[r].retries, fetch[r].url)]
  /\ UNCHANGED <<inat, observed, faults, store, pc, resp, local, hist>>

\* axios.get resolves: return response.data
FetchAttemptOk(r) ==
  /\ fetch[r].st = "active"
  /\ LoopCondition(fetch[r].attempt, fetch[r].retries)
  /\ Serve(fetch[r].url).ok
  /\ fetch' = [fetch EXCEPT ![r].st = "returned",
                            ![r].nreq = @ + 1,
                            ![r].data = Serve(fetch[r].url).data]
  /\ UNCHANGED <<inat, observed, faults, store, pc, resp, local, hist>>

\* axios.get rejects: the catch block either starts the backoff delay or rethrows
FetchAttemptError(r) ==
  /\ fetch[r].st = "active"
  /\ LoopCondition(fetch[r].attempt, fetch[r].retries)
  /\ \E error \in RequestErrors(fetch[r].url) :
       fetch' = IF IsRetryable(error)
                THEN [fetch EXCEPT ![r].st = "delay",
                                   ![r].nreq = @ + 1,
                                   ![r].error = error,
                                   ![r].waitTime = WaitTime(fetch[r].delayMs, fetch[r].attempt)]
                ELSE [fetch EXCEPT ![r].st = "thrown",
                                   ![r].nreq = @ + 1,
                                   ![r].error = error]
  /\ UNCHANGED <<inat, observed, faults, store, pc, resp, local, hist>>

\* await delay(waitTime) is over: continue, attempt++
FetchDelayDone(r) ==
  /\ fetch[r].st = "delay"
  /\ fetch' = [fetch EXCEPT ![r].st = "active",
                            ![r].attempt = @ + 1,
                            ![r].waited = @ + fetch[r].waitTime,
                            ![r].waitTime = 0,
                            ![r].error = NoError]
  /\ UNCHANGED <<inat, observed, faults, store, pc, resp, local, hist>>

FetchWithRetry(r) ==
  \/ FetchLoopExit(r)
  \/ FetchAttemptOk(r)
  \/ FetchAttemptError(r)
  \/ FetchDelayDone(r)

---------------------------------------------------------------------------
(* fetchObservationImages: the loops over observations and photos          *)

\* faulty variant: the URL is kept as it is
MediumUrl_Raw(rawUrl) == rawUrl

\* rawUrl.includes("square") ? rawUrl.replace("square", "medium") : rawUrl
MediumUrl(rawUrl) ==
  IF Includes(rawUrl, <<"square">>) THEN ReplaceFirst(rawUrl, "square", "medium") ELSE rawUrl

\* faulty variant: the loops stop one entry too late
CapReached_OffByOne(imageUrls, maxImages) == Len(imageUrls) > maxImages

\* if (imageUrls.length >= maxImages) break
CapReached(imageUrls, maxImages) == Len(imageUrls) >= maxImages

\* for (const photo of obs.photos), from photo j, with its break
RECURSIVE PhotoLoop(_, _, _, _)
PhotoLoop(photos, j, imageUrls, maxImages) ==
  IF j > Len(photos) THEN imageUrls
  ELSE LET mediumUrl == MediumUrl(photos[j].url)
           pushed == IF mediumUrl # NoUrl /\ ~Contains(imageUrls, mediumUrl)
                     THEN Append(imageUrls, mediumUrl)
                     ELSE imageUrls
       IN IF CapReached(pushed, maxImages) THEN pushed
          ELSE PhotoLoop(photos, j + 1, pushed, maxImages)

\* for (const obs of observations), from observation i, with its break
RECURSIVE ObservationLoop(_, _, _, _)
ObservationLoop(observations, i, imageUrls, maxImages) ==
  IF i > Len(observations) THEN imageUrls
  ELSE LET obs == observations[i]
           afterPhotos == IF Len(obs.photos) # 0
                          THEN PhotoLoop(obs.photos, 1, imageUrls, maxImages)
                          ELSE imageUrls
           fallback == obs.taxon_default_photo_medium_url
           afterFallback == IF /\ Len(afterPhotos) < maxImages
                               /\ fallback # NoUrl
                               /\ ~Contains(afterPhotos, fallback)
                            THEN Append(afterPhotos, fallback)
                            ELSE afterPhotos
       IN IF CapReached(afterFallback, maxImages) THEN afterFallback
          ELSE ObservationLoop(observations, i + 1, afterFallback, maxImages)

\* the list fetchObservationImages returns for the payload `data`
CollectImages(data, maxImages) == ObservationLoop(data.results, 1, <<>>, maxImages)

---------------------------------------------------------------------------
(* Firestore                                                               *)

\* species.id.toString(): the key of the species' document
DocId(species) == ToString(species.id)

\* the documents of the collection the model follows
StoreIds == {ToString(i) : i \in 1..4}

\* set(doc, {merge: true}): the fields of doc overlay the stored ones, the other
\* stored fields stay
MergeSet(stored, doc) ==
  [exists |-> TRUE,
   data |-> [k \in DOMAIN stored.data \cup DOMAIN doc |->
               IF k \in DOMAIN doc THEN doc[k] ELSE stored.data[k]]]

\* the notes the external editor writes, and the mark of "never edited"
EditorText == "check range"
NotEdited == "(not edited)"

---------------------------------------------------------------------------
(* Locals and history                                                      *)

\* locals of processSpecies before it is called, with maxImages, the parameter of
\* the fetchObservationImages call it makes (0: not called)
NoSpeciesLocals ==
  [existing |-> NoDoc, maxImages |-> 0, images |-> <<>>, imageURL |-> NoUrl,
   seasonalityData |-> <<>>, wikipediaHtml |-> Null]

\* locals of main and fetchAllINaturalistSpecies before main runs:
\* taxon is the index in taxa (0: none), idx the place in shuffled of the species
\* being processed
NoLocal ==
  [taxon |-> 0, page |-> 0, allResults |-> <<>>, shuffled |-> <<>>, idx |-> 0,
   ps |-> NoSpeciesLocals]

\* started: the species ids processSpecies was called with in this run;
\* failed: the per-species errors caught by the loop of main in this run;
\* ended: the processSpecies calls of this run that have returned or thrown;
\* pages: the pages fetchAllINaturalistSpecies asked fetchWithRetry for.
\* Beside them the history keeps, per document, the text the editor last wrote
\* (editor) and the number of uploads (writes), and per run the last line main
\* logged when it ended (outcome: "complete" or "task failed")
NoRunHist == [started |-> <<>>, failed |-> 0, ended |-> 0, pages |-> <<>>]

Species(r) == local[r].shuffled[local[r].idx]
Taxon(r) == taxa[local[r].taxon]

\* all orders of a sequence: what sort(() => Math.random() - 0.5) may produce
Shuffles(seq) ==
  { [i \in DOMAIN seq |-> seq[p[i]]] :
      p \in { q \in [DOMAIN seq -> DOMAIN seq] : \A i, j \in DOMAIN seq : q[i] = q[j] => i = j } }

\* results.filter((t) => t.rank === "species")
IsSpeciesRank(t) == t.rank = "species"
FilterSpecies(results) == SelectSeq(results, IsSpeciesRank)

---------------------------------------------------------------------------
(* processSpecies: the tests on the stored document and the document built *)

\* Array.isArray(existingData?.images) && existingData.images.length > 0
HasExistingImages(existing) ==
  existing.exists /\ "images" \in DOMAIN existing.data /\ Len(existing.data.images) > 0

\* !!existingData?.seasonalityData  (an array, even empty, is truthy)
HasExistingSeasonality(existing) ==
  existing.exists /\ "seasonalityData" \in DOMAIN existing.data

\* faulty variant: the stored Wikipedia HTML is never reused
HasExistingWiki_Never(existing) == FALSE

\* !!existingData?.wikipediaHtml
HasExistingWiki(existing) ==
  existing.exists /\ "wikipediaHtml" \in DOMAIN existing.data
                  /\ existing.data.wikipediaHtml # ""

\* faulty variant: the test for an empty list never succeeds
NoImages_Never(images) == Len(images) < 0

\* faulty variant: a list of one image counts as empty
NoImages_UnderTwo(images) == Len(images) <= 1

\* images.length === 0
NoImages(images) == Len(images) = 0

\* images[0], undefined (falsy) on an empty array
FirstImage(images) == IF Len(images) = 0 THEN NoUrl ELSE images[1]

\* faulty variant: the species' default photo is ignored
ImageURL_FirstImage(species, images) == FirstImage(images)

\* const imageURL = defaultImage || images[0]
ImageURL(species, images) ==
  IF species.default_photo_medium_url # NoUrl
  THEN species.default_photo_medium_url
  ELSE FirstImage(images)

\* const doc = {...}
BuildDoc(species, category, ps) ==
  [id |-> DocId(species),
   title |-> species.name,
   scientificName |-> species.name,
   imageURL |-> ps.imageURL,
   images |-> ps.images,
   seasonality |-> ps.seasonalityData,
   category |-> category,
   notes |-> "",
   vernacular_names |-> IF species.preferred_common_name # ""
                        THEN <<species.preferred_common_name>> ELSE <<>>,
   wikipediaHtml |-> IF ps.wikipediaHtml = Null THEN "" ELSE ps.wikipediaHtml]

\* faulty variant: no try/catch in the loop, the error reaches the outer catch of main
CatchInLoop_Abort(r) ==
  /\ pc' = [pc EXCEPT ![r] = "returned"]
  /\ local' = [local EXCEPT ![r] = NoLocal]
  /\ fetch' = [fetch EXCEPT ![r] = NoFetch]
  /\ hist' = [hist EXCEPT !.run[r] = NoRunHist, !.outcome[r] = "task failed"]

\* an error thrown inside processSpecies reaches the catch of the loop of main:
\* it is logged and the loop goes on
CatchInLoop(r) ==
  /\ pc' = [pc EXCEPT ![r] = "loop"]
  /\ local' = [local EXCEPT ![r].ps = NoSpeciesLocals]
  /\ fetch' = [fetch EXCEPT ![r] = NoFetch]
  /\ hist' = [hist EXCEPT !.run[r].failed = @ + 1, !.run[r].ended = @ + 1]

\* processSpecies returns normally to the loop of main
ReturnToLoop(r) ==
  /\ pc' = [pc EXCEPT ![r] = "loop"]
  /\ local' = [local EXCEPT ![r].ps = NoSpeciesLocals]
  /\ fetch' = [fetch EXCEPT ![r] = NoFetch]

\* await docRef.get() resolves with the document as it is now
GetDoc(r) ==
  /\ pc[r] = "get"
  /\ pc' = [pc EXCEPT ![r] = "images"]
  /\ local' = [local EXCEPT ![r].ps.existing = store[DocId(Species(r))]]
  /\ UNCHANGED <<inat, observed, faults, store, resp, fetch, hist>>

\* await docRef.get() rejects (a Firestore error)
GetDocFails(r) ==
  /\ pc[r] = "get"
  /\ CatchInLoop(r)
  /\ UNCHANGED <<inat, observed, faults, store, resp>>

\* let images: reuse existingData.images or call fetchObservationImages
ImagesResolve(r) ==
  /\ pc[r] = "images"
  /\ IF HasExistingImages(local[r].ps.existing)
     THEN /\ local' = [local EXCEPT ![r].ps.images = local[r].ps.existing.data.images]
          /\ pc' = [pc EXCEPT ![r] = "check"]
          /\ UNCHANGED fetch
     ELSE /\ fetch' = [fetch EXCEPT ![r] =
                         CallFetchWithRetry(ObservationsUrl(Species(r).id),
                                            DefaultRetries, DefaultDelayMs)]
          /\ pc' = [pc EXCEPT ![r] = "fetch_images"]
          /\ local' = [local EXCEPT ![r].ps.maxImages = DefaultMaxImages]
  /\ UNCHANGED <<inat, observed, faults, store, resp, hist>>

\* fetchObservationImages got its payload and returns the collected list
ImagesFetched(r) ==
  /\ pc[r] = "fetch_images"
  /\ fetch[r].st = "returned"
  /\ local' = [local EXCEPT ![r].ps.images = CollectImages(fetch[r].data, local[r].ps.maxImages)]
  /\ fetch' = [fetch EXCEPT ![r] = NoFetch]
  /\ pc' = [pc EXCEPT ![r] = "check"]
  /\ UNCHANGED <<inat, observed, faults, store, resp, hist>>

\* faulty variant: the images already fetched are stored before the error goes on
SpeciesFetchThrown_SavesImages(r) ==
  /\ pc[r] \in {"fetch_images", "fetch_season"}
  /\ fetch[r].st = "thrown"
  /\ store' = IF pc[r] = "fetch_season"
              THEN [store EXCEPT ![DocId(Species(r))] =
                      MergeSet(@, [id |-> DocId(Species(r)), images |-> local[r].ps.images])]
              ELSE store
  /\ CatchInLoop(r)
  /\ UNCHANGED <<inat, observed, faults, resp>>

\* fetchObservationImages or fetchSeasonality lets the error of fetchWithRetry through
SpeciesFetchThrown(r) ==
  /\ pc[r] \in {"fetch_images", "fetch_season"}
  /\ fetch[r].st = "thrown"
  /\ CatchInLoop(r)
  /\ UNCHANGED <<inat, observed, faults, store, resp>>

\* if (images.length === 0) return
SkipNoImages(r) ==
  /\ pc[r] = "check"
  /\ NoImages(local[r].ps.images)
  /\ ReturnToLoop(r)
  /\ hist' = [hist EXCEPT !.run[r].ended = @ + 1]
  /\ UNCHANGED <<inat, observed, faults, store, resp>>

\* imageURL, then let seasonalityData: reuse existingData.seasonalityData or call
\* fetchSeasonality
SeasonalityResolve(r) ==
  /\ pc[r] = "check"
  /\ ~NoImages(local[r].ps.images)
  /\ IF HasExistingSeasonality(local[r].ps.existing)
     THEN /\ local' = [local EXCEPT
                         ![r].ps.imageURL = ImageURL(Species(r), local[r].ps.images),
                         ![r].ps.seasonalityData = local[r].ps.existing.data.seasonalityData]
          /\ pc' = [pc EXCEPT ![r] = "wiki"]
          /\ UNCHANGED fetch
     ELSE /\ local' = [local EXCEPT
                         ![r].ps.imageURL = ImageURL(Species(r), local[r].ps.images)]
          /\ fetch' = [fetch EXCEPT ![r] =
                         CallFetchWithRetry(HistogramUrl(Species(r).id),
                                            DefaultRetries, DefaultDelayMs)]
          /\ pc' = [pc EXCEPT ![r] = "fetch_season"]
  /\ UNCHANGED <<inat, observed, faults, store, resp, hist>>

\* fetchSeasonality returns data.results
SeasonalityFetched(r) ==
  /\ pc[r] = "fetch_season"
  /\ fetch[r].st = "returned"
  /\ local' = [local EXCEPT ![r].ps.seasonalityData = fetch[r].data.results]
  /\ fetch' = [fetch EXCEPT ![r] = NoFetch]
  /\ pc' = [pc EXCEPT ![r] = "wiki"]
  /\ UNCHANGED <<inat, observed, faults, store, resp, hist>>

\* let wikipediaHtml: reuse existingData.wikipediaHtml or call fetchWikipediaMobileHTML
WikiResolve(r) ==
  /\ pc[r] = "wiki"
  /\ IF HasExistingWiki(local[r].ps.existing)
     THEN /\ local' = [local EXCEPT
                         ![r].ps.wikipediaHtml = local[r].ps.existing.data.wikipediaHtml]
          /\ pc' = [pc EXCEPT ![r] = "upload"]
          /\ UNCHANGED fetch
     ELSE /\ fetch' = [fetch EXCEPT ![r] =
                         CallFetchWithRetry(WikipediaUrl(Species(r).name),
                                            DefaultRetries, DefaultDelayMs)]
          /\ pc' = [pc EXCEPT ![r] = "fetch_wiki"]
          /\ UNCHANGED local
  /\ UNCHANGED <<inat, observed, faults, store, resp, hist>>

\* fetchWikipediaMobileHTML returns the html
WikiFetched(r) ==
  /\ pc[r] = "fetch_wiki"
  /\ fetch[r].st = "returned"
  /\ local' = [local EXCEPT ![r].ps.wikipediaHtml = fetch[r].data]
  /\ fetch' = [fetch EXCEPT ![r] = NoFetch]
  /\ pc' = [pc EXCEPT ![r] = "upload"]
  /\ UNCHANGED <<inat, observed, faults, store, resp, hist>>

\* faulty variant: fetchWikipediaMobileHTML has no try/catch and lets the error through
WikiFetchFailed_Rethrow(r) ==
  /\ pc[r] = "fetch_wiki"
  /\ fetch[r].st = "thrown"
  /\ CatchInLoop(r)
  /\ UNCHANGED <<inat, observed, faults, store, resp>>

\* fetchWikipediaMobileHTML catches the error of fetchWithRetry and returns null
WikiFetchFailed(r) ==
  /\ pc[r] = "fetch_wiki"
  /\ fetch[r].st = "thrown"
  /\ local' = [local EXCEPT ![r].ps.wikipediaHtml = Null]
  /\ fetch' = [fetch EXCEPT ![r] = NoFetch]
  /\ pc' = [pc EXCEPT ![r] = "upload"]
  /\ UNCHANGED <<inat, observed, faults, store, resp, hist>>

\* the document uploadToFirestore stores for the species: set(doc, {merge: true})
Uploaded(stored, species, category, ps) == MergeSet(stored, BuildDoc(species, category, ps))

\* await uploadToFirestore(doc) resolves; processSpecies returns
Upload(r) ==
  /\ pc[r] = "upload"
  /\ store' = [store EXCEPT ![DocId(Species(r))] =
                 Uploaded(@, Species(r), Taxon(r).category, local[r].ps)]
  /\ hist' = [hist EXCEPT !.writes[DocId(Species(r))] = @ + 1, !.run[r].ended = @ + 1]
  /\ ReturnToLoop(r)
  /\ UNCHANGED <<inat, observed, faults, resp>>

\* await uploadToFirestore(doc) rejects (a Firestore error)
UploadFails(r) ==
  /\ pc[r] = "upload"
  /\ CatchInLoop(r)
  /\ UNCHANGED <<inat, observed, faults, store, resp>>

ProcessSpecies(r) ==
  \/ GetDoc(r)
  \/ GetDocFails(r)
  \/ ImagesResolve(r)
  \/ ImagesFetched(r)
  \/ SpeciesFetchThrown(r)
  \/ SkipNoImages(r)
  \/ SeasonalityResolve(r)
  \/ SeasonalityFetched(r)
  \/ WikiResolve(r)
  \/ WikiFetched(r)
  \/ WikiFetchFailed(r)
  \/ Upload(r)
  \/ UploadFails(r)

---------------------------------------------------------------------------
(* fetchAllINaturalistSpecies                                              *)

\* the call of fetchWithRetry for page `page` of the taxon of run r
FetchPage(r, page) ==
  /\ fetch' = [fetch EXCEPT ![r] =
                 CallFetchWithRetry(TaxaUrl(Taxon(r).id, Taxon(r).iconicTaxon, PerPage, page),
                                    DefaultRetries, DefaultDelayMs)]
  /\ hist' = [hist EXCEPT !.run[r].pages = Append(@, page)]

\* faulty variant: the end of data is decided on the filtered page
IsShortPage_Filtered(results) == Len(FilterSpecies(results)) < PerPage

\* if (results.length < perPage) break, on the raw page
IsShortPage(results) == Len(results) < PerPage

\* faulty variant: page is not incremented
ListMorePages_SamePage(r) ==
  /\ pc[r] = "listing"
  /\ fetch[r].st = "returned"
  /\ ~IsShortPage(fetch[r].data.results)
  /\ local' = [local EXCEPT
                 ![r].allResults = @ \o FilterSpecies(fetch[r].data.results)]
  /\ fetch' = [fetch EXCEPT ![r] = NoFetch]
  /\ pc' = [pc EXCEPT ![r] = "page_delay"]
  /\ UNCHANGED <<inat, observed, faults, store, resp, hist>>

\* a full page came back: keep its species, page++, await delay(300)
ListMorePages(r) ==
  /\ pc[r] = "listing"
  /\ fetch[r].st = "returned"
  /\ ~IsShortPage(fetch[r].data.results)
  /\ local' = [local EXCEPT
                 ![r].allResults = @ \o FilterSpecies(fetch[r].data.results),
                 ![r].page = @ + 1]
  /\ fetch' = [fetch EXCEPT ![r] = NoFetch]
  /\ pc' = [pc EXCEPT ![r] = "page_delay"]
  /\ UNCHANGED <<inat, observed, faults, store, resp, hist>>

\* the delay between pages is over: the next page is asked for
ListDelayDone(r) ==
  /\ pc[r] = "page_delay"
  /\ FetchPage(r, local[r].page)
  /\ pc' = [pc EXCEPT ![r] = "listing"]
  /\ UNCHANGED <<inat, observed, faults, store, resp, local>>

\* a short page came back: keep its species, break, return allResults
ListLastPage(r) ==
  /\ pc[r] = "listing"
  /\ fetch[r].st = "returned"
  /\ IsShortPage(fetch[r].data.results)
  /\ local' = [local EXCEPT
                 ![r].allResults = @ \o FilterSpecies(fetch[r].data.results)]
  /\ fetch' = [fetch EXCEPT ![r] = NoFetch]
  /\ pc' = [pc EXCEPT ![r] = "shuffle"]
  /\ UNCHANGED <<inat, observed, faults, store, resp, hist>>

FetchAllINaturalistSpecies(r) ==
  \/ ListMorePages(r)
  \/ ListDelayDone(r)
  \/ ListLastPage(r)

---------------------------------------------------------------------------
(* main                                                                    *)

\* faulty variant: the response is not sent before the work starts
MainRespond_NoSend(r) ==
  /\ pc[r] = "idle"
  /\ \A q \in 1..(r - 1) : pc[q] # "idle"
  /\ pc' = [pc EXCEPT ![r] = "select"]
  /\ UNCHANGED <<inat, observed, faults, store, resp, local, fetch, hist>>

\* a request arrives: res.status(202).send(...); the invocations are numbered in
\* the order of their requests
MainRespond(r) ==
  /\ pc[r] = "idle"
  /\ \A q \in 1..(r - 1) : pc[q] # "idle"
  /\ resp' = [resp EXCEPT ![r] = Accepted]
  /\ pc' = [pc EXCEPT ![r] = "select"]
  /\ UNCHANGED <<inat, observed, faults, store, local, fetch, hist>>

\* taxa[Math.floor(Math.random() * taxa.length)], then fetchAllINaturalistSpecies
\* asks for page 1
MainSelectTaxon(r) ==
  /\ pc[r] = "select"
  /\ \E t \in DOMAIN taxa :
       /\ local' = [local EXCEPT ![r].taxon = t, ![r].page = 1]
       /\ fetch' = [fetch EXCEPT ![r] =
                      CallFetchWithRetry(TaxaUrl(taxa[t].id, taxa[t].iconicTaxon, PerPage, 1),
                                         DefaultRetries, DefaultDelayMs)]
  /\ hist' = [hist EXCEPT !.run[r].pages = Append(@, 1)]
  /\ pc' = [pc EXCEPT ![r] = "listing"]
  /\ UNCHANGED <<inat, observed, faults, store, resp>>

\* faulty variant: the species of the pages already fetched are returned and
\* processed
ListingThrown_KeepPartial(r) ==
  /\ pc[r] = "listing"
  /\ fetch[r].st = "thrown"
  /\ pc' = [pc EXCEPT ![r] = "shuffle"]
  /\ fetch' = [fetch EXCEPT ![r] = NoFetch]
  /\ UNCHANGED <<inat, observed, faults, store, resp, local, hist>>

\* fetchAllINaturalistSpecies throws: the outer catch of main logs
\* "Background task failed" and main returns
ListingThrown(r) ==
  /\ pc[r] = "listing"
  /\ fetch[r].st = "thrown"
  /\ pc' = [pc EXCEPT ![r] = "returned"]
  /\ local' = [local EXCEPT ![r] = NoLocal]
  /\ fetch' = [fetch EXCEPT ![r] = NoFetch]
  /\ hist' = [hist EXCEPT !.run[r] = NoRunHist, !.outcome[r] = "task failed"]
  /\ UNCHANGED <<inat, observed, faults, store, resp>>

\* const shuffled = speciesList.sort(() => Math.random() - 0.5)
MainShuffle(r) ==
  /\ pc[r] = "shuffle"
  /\ \E order \in Shuffles(local[r].allResults) :
       local' = [local EXCEPT ![r].shuffled = order, ![r].allResults = order, ![r].idx = 0]
  /\ hist' = [hist EXCEPT !.run[r].pages = <<>>]
  /\ pc' = [pc EXCEPT ![r] = "loop"]
  /\ UNCHANGED <<inat, observed, faults, store, resp, fetch>>

\* faulty variant: processSpecies is called without await, the loop goes on while
\* the call is in progress
LoopNext_NoAwait(r) ==
  /\ pc[r] \in {"loop", "get", "images", "fetch_images", "check", "fetch_season", "wiki",
                "fetch_wiki", "upload"}
  /\ local[r].idx < Len(local[r].shuffled)
  /\ local' = [local EXCEPT ![r].idx = @ + 1, ![r].ps = NoSpeciesLocals]
  /\ fetch' = [fetch EXCEPT ![r] = NoFetch]
  /\ hist' = [hist EXCEPT !.run[r].started = Append(@, local[r].shuffled[local[r].idx + 1].id)]
  /\ pc' = [pc EXCEPT ![r] = "get"]
  /\ UNCHANGED <<inat, observed, faults, store, resp>>

\* for (const species of shuffled): the next species; await processSpecies, which
\* asks for its document
LoopNext(r) ==
  /\ pc[r] = "loop"
  /\ local[r].idx < Len(local[r].shuffled)
  /\ local' = [local EXCEPT ![r].idx = @ + 1]
  /\ hist' = [hist EXCEPT !.run[r].started = Append(@, local[r].shuffled[local[r].idx + 1].id)]
  /\ pc' = [pc EXCEPT ![r] = "get"]
  /\ UNCHANGED <<inat, observed, faults, store, resp, fetch>>

\* the loop is over: "Firestore update for random taxon complete."
LoopEnd(r) ==
  /\ pc[r] = "loop"
  /\ ~(local[r].idx < Len(local[r].shuffled))
  /\ pc' = [pc EXCEPT ![r] = "complete"]
  /\ UNCHANGED <<inat, observed, faults, store, resp, local, fetch, hist>>

\* main returns after the loop
MainReturn(r) ==
  /\ pc[r] = "complete"
  /\ pc' = [pc EXCEPT ![r] = "returned"]
  /\ local' = [local EXCEPT ![r] = NoLocal]
  /\ fetch' = [fetch EXCEPT ![r] = NoFetch]
  /\ hist' = [hist EXCEPT !.run[r] = NoRunHist, !.outcome[r] = "complete"]
  /\ UNCHANGED <<inat, observed, faults, store, resp>>

Main(r) ==
  \/ MainSelectTaxon(r)
  \/ ListingThrown(r)
  \/ MainShuffle(r)
  \/ LoopNext(r)
  \/ LoopEnd(r)
  \/ MainReturn(r)

---------------------------------------------------------------------------
(* The external editor of `notes`                                          *)

\* the editor writes its text in the notes of an existing document
EditorSetNotes(id) ==
  /\ store[id].exists
  /\ store[id].data.notes # EditorText
  /\ store' = [store EXCEPT ![id].data.notes = EditorText]
  /\ hist' = [hist EXCEPT !.editor[id] = EditorText]
  /\ UNCHANGED <<inat, observed, faults, pc, resp, local, fetch>>

---------------------------------------------------------------------------
(* Specifications                                                          *)

IdleState ==
  /\ store = [id \in StoreIds |-> NoDoc]
  /\ pc = [r \in Runs |-> "idle"]
  /\ resp = [r \in Runs |-> 0]
  /\ local = [r \in Runs |-> NoLocal]
  /\ fetch = [r \in Runs |-> NoFetch]
  /\ hist = [editor |-> [id \in StoreIds |-> NotEdited],
             writes |-> [id \in StoreIds |-> 0],
             run |-> [r \in Runs |-> NoRunHist],
             outcome |-> [r \in Runs |-> "none"]]

\* the function is deployed, the collection is empty, no request has arrived
Init ==
  /\ inat = PipelineInat
  /\ observed = 0
  /\ faults = PipelineFaults
  /\ IdleState

\* a request may arrive at any time: invocations of main overlap
Next ==
  \/ \E r \in Runs : MainRespond(r)
  \/ \E r \in Runs : Main(r)
  \/ \E r \in Runs : FetchAllINaturalistSpecies(r)
  \/ \E r \in Runs : ProcessSpecies(r)
  \/ \E r \in Runs : FetchWithRetry(r)
  \/ \E id \in StoreIds : EditorSetNotes(id)

Spec == Init /\ [][Next]_vars

---------------------------------------------------------------------------
(* fetchWithRetry alone: one call with any retry budget up to MaxRetries,  *)
(* either base delay, on a URL of each kind, under every network fault     *)

RetryUrls ==
  { TaxaUrl(20979, "Amphibia", PerPage, 1),
    ObservationsUrl(1),
    WikipediaUrl(<<"Rana", " ", "pipiens">>),
    WikipediaUrl(<<"Hyla", " ", "versicolor">>) }

RetryDelays == {DefaultDelayMs, 250}

InitRetry ==
  /\ inat = PipelineInat
  /\ observed = 0
  /\ faults = AllFaults
  /\ store = [id \in StoreIds |-> NoDoc]
  /\ pc = [r \in Runs |-> "idle"]
  /\ resp = [r \in Runs |-> 0]
  /\ local = [r \in Runs |-> NoLocal]
  /\ hist = [editor |-> [id \in StoreIds |-> NotEdited],
             writes |-> [id \in StoreIds |-> 0],
             run |-> [r \in Runs |-> NoRunHist],
             outcome |-> [r \in Runs |-> "none"]]
  /\ \E url \in RetryUrls, retries \in 0..MaxRetries, delayMs \in RetryDelays :
       fetch = [r \in Runs |-> IF r = 1 THEN CallFetchWithRetry(url, retries, delayMs)
                                        ELSE NoFetch]

NextRetry == \E r \in Runs : FetchWithRetry(r)

SpecRetry == InitRetry /\ [][NextRetry]_vars

---------------------------------------------------------------------------
(* fetchAllINaturalistSpecies alone: one call on a listing of any size up  *)
(* to MaxTotal, all of rank species or with entries of another rank        *)

\* every entry is a species / every third entry is of another rank
AllSpecies(n) == [i \in 1..n |-> i]
MixedRanks(n) == [i \in {k \in 1..n : k % 3 # 0} |-> i]

\* the taxon listed in SpecPages
PagesTaxon == CHOOSE i \in DOMAIN taxa : taxa[i].category = "Snakes"

InitPages ==
  /\ \E n \in 0..MaxTotal :
     \E sp \in {AllSpecies(n), MixedRanks(n)} :
       inat = [t \in TaxonIds |-> IF t = taxa[PagesTaxon].id
                                  THEN [total |-> n, sp |-> sp]
                                  ELSE EmptyListing]
  /\ observed = 0
  /\ faults = {E429}
  /\ store = [id \in StoreIds |-> NoDoc]
  /\ pc = [r \in Runs |-> IF r = 1 THEN "listing" ELSE "idle"]
  /\ resp = [r \in Runs |-> IF r = 1 THEN Accepted ELSE 0]
  /\ local = [r \in Runs |-> IF r = 1 THEN [NoLocal EXCEPT !.taxon = PagesTaxon, !.page = 1]
                                      ELSE NoLocal]
  /\ fetch = [r \in Runs |->
                IF r = 1
                THEN CallFetchWithRetry(TaxaUrl(taxa[PagesTaxon].id,
                                                taxa[PagesTaxon].iconicTaxon, PerPage, 1),
                                        DefaultRetries, DefaultDelayMs)
                ELSE NoFetch]
  /\ hist = [editor |-> [id \in StoreIds |-> NotEdited],
             writes |-> [id \in StoreIds |-> 0],
             run |-> [r \in Runs |-> IF r = 1 THEN [NoRunHist EXCEPT !.pages = <<1>>]
                                              ELSE NoRunHist],
             outcome |-> [r \in Runs |-> "none"]]

NextPages ==
  \/ \E r \in Runs : FetchAllINaturalistSpecies(r)
  \/ \E r \in Runs : FetchWithRetry(r)

SpecPages == InitPages /\ [][NextPages]_vars

---------------------------------------------------------------------------
(* fetchObservationImages alone: the payload has come back, and the list   *)
(* is collected for any maxImages from -1 to MaxImagesArg (the parameter    *)
(* takes whatever a caller passes; 5 when left out) and any payload of up  *)
(* to MaxObs observations                                                  *)

\* a photo URL with the marker twice, and what replace() makes of it
TwiceSquareUrl == <<"https://inaturalist-open-data/", "square", "/photos/5/", "square", ".jpg">>
OnceReplacedUrl == <<"https://inaturalist-open-data/", "medium", "/photos/5/", "square", ".jpg">>

\* the observations upstream may return: repeated and several photos, a photo of
\* another size, no photo, a photo without url, a URL with the marker twice, a photo
\* whose URL is the once-replaced one, a default photo that is a thumbnail
ObsChoices ==
  { [photos |-> << [url |-> PhotoUrl(11, "square")], [url |-> PhotoUrl(11, "square")],
                   [url |-> PhotoUrl(12, "square")] >>,
     taxon_default_photo_medium_url |-> PhotoUrl(10, "medium")],
    [photos |-> << [url |-> PhotoUrl(13, "original")], [url |-> PhotoUrl(11, "medium")] >>,
     taxon_default_photo_medium_url |-> PhotoUrl(10, "medium")],
    [photos |-> <<>>, taxon_default_photo_medium_url |-> PhotoUrl(40, "medium")],
    [photos |-> << [url |-> NoUrl], [url |-> PhotoUrl(14, "square")] >>,
     taxon_default_photo_medium_url |-> NoUrl],
    [photos |-> << [url |-> PhotoUrl(15, "square")], [url |-> PhotoUrl(16, "square")],
                   [url |-> PhotoUrl(17, "square")], [url |-> PhotoUrl(18, "square")] >>,
     taxon_default_photo_medium_url |-> NoUrl],
    [photos |-> << [url |-> TwiceSquareUrl] >>, taxon_default_photo_medium_url |-> NoUrl],
    [photos |-> << [url |-> OnceReplacedUrl] >>, taxon_default_photo_medium_url |-> NoUrl],
    [photos |-> << [url |-> PhotoUrl(19, "square")] >>,
     taxon_default_photo_medium_url |-> PhotoUrl(19, "square")] }

ObsLists == UNION { [1..n -> ObsChoices] : n \in 0..MaxObs }

\* the taxon and the species of the call in SpecImages
ImagesTaxon == CHOOSE i \in DOMAIN taxa : taxa[i].category = "Frogs"
ImagesSpecies == SpeciesEntry(1)

InitImages ==
  /\ inat = PipelineInat
  /\ observed = 0
  /\ faults = PipelineFaults
  /\ store = [id \in StoreIds |-> NoDoc]
  /\ pc = [r \in Runs |-> IF r = 1 THEN "fetch_images" ELSE "idle"]
  /\ resp = [r \in Runs |-> IF r = 1 THEN Accepted ELSE 0]
  /\ \E maxImages \in (-1)..MaxImagesArg :
       local = [r \in Runs |->
                  IF r = 1
                  THEN [NoLocal EXCEPT !.taxon = ImagesTaxon, !.page = 1,
                                       !.allResults = <<ImagesSpecies>>,
                                       !.shuffled = <<ImagesSpecies>>, !.idx = 1,
                                       !.ps.maxImages = maxImages]
                  ELSE NoLocal]
  /\ \E observations \in ObsLists :
       fetch = [r \in Runs |->
                  IF r = 1
                  THEN [CallFetchWithRetry(ObservationsUrl(ImagesSpecies.id),
                                           DefaultRetries, DefaultDelayMs)
                          EXCEPT !.st = "returned", !.nreq = 1,
                                 !.data = [results |-> observations]]
                  ELSE NoFetch]
  /\ hist = [editor |-> [id \in StoreIds |-> NotEdited],
             writes |-> [id \in StoreIds |-> 0],
             run |-> [r \in Runs |-> IF r = 1
                                     THEN [NoRunHist EXCEPT !.started = <<ImagesSpecies.id>>]
                                     ELSE NoRunHist],
             outcome |-> [r \in Runs |-> "none"]]

NextImages == \E r \in Runs : ImagesFetched(r)

SpecImages == InitImages /\ [][NextImages]_vars

---------------------------------------------------------------------------
(* Requests overlap while upstream changes: every invocation of main is in *)
(* its loop over the frogs (all chose that taxon), each in an order of its *)
(* own, and upstream may receive a new observation                         *)

\* a new observation is posted to iNaturalist
NewObservation ==
  /\ observed < MaxPosted
  /\ observed' = observed + 1
  /\ UNCHANGED <<inat, faults, store, pc, resp, local, fetch, hist>>

OverlapSpecies == FilterSpecies(RawListing(PipelineInat[taxa[ImagesTaxon].id]))

InitOverlap ==
  /\ inat = PipelineInat
  /\ observed = 0
  /\ faults = {E429}
  /\ store = [id \in StoreIds |-> NoDoc]
  /\ pc = [r \in Runs |-> "loop"]
  /\ resp = [r \in Runs |-> Accepted]
  /\ local \in [Runs -> { [NoLocal EXCEPT !.taxon = ImagesTaxon, !.page = 1,
                                          !.allResults = order, !.shuffled = order] :
                            order \in Shuffles(OverlapSpecies) }]
  /\ fetch = [r \in Runs |-> NoFetch]
  /\ hist = [editor |-> [id \in StoreIds |-> NotEdited],
             writes |-> [id \in StoreIds |-> 0],
             run |-> [r \in Runs |-> NoRunHist],
             outcome |-> [r \in Runs |-> "none"]]

NextOverlap ==
  \/ \E r \in Runs : LoopNext(r)
  \/ \E r \in Runs : LoopEnd(r)
  \/ \E r \in Runs : MainReturn(r)
  \/ \E r \in Runs : ProcessSpecies(r)
  \/ \E r \in Runs : FetchWithRetry(r)
  \/ NewObservation

SpecOverlap == InitOverlap /\ [][NextOverlap]_vars

---------------------------------------------------------------------------
(* Claims                                                                  *)

\* the await points inside processSpecies, and those of the loop of main
SpeciesPcs ==
  {"get", "images", "fetch_images", "check", "fetch_season", "wiki", "fetch_wiki", "upload"}
LoopPcs == SpeciesPcs \cup {"loop"}

\* the species ids of the listing of the taxon of run r
ListedIds(r) == LET d == inat[Taxon(r).id] IN {d.sp[i] : i \in DOMAIN d.sp}

\* C1: a document whose notes the external editor has set still holds the
\* editor's text after any write of the pipeline: the upsert never clears or
\* overwrites notes.
C1_NotesPreserved ==
  \A id \in StoreIds :
    (store[id].exists /\ hist.editor[id] # NotEdited)
      => store[id].data.notes = hist.editor[id]

\* C2: images, seasonality and wikipediaHtml are fetched at most once ever per
\* species: a processSpecies call that read a document holding a non-empty value
\* of a field issues no upstream request for that field.
C2_FetchedAtMostOnce ==
  \A r \in Runs :
    LET existing == local[r].ps.existing IN
    /\ pc[r] = "fetch_images"
         => ~(existing.exists /\ existing.data.images # <<>>)
    /\ pc[r] = "fetch_season"
         => ~(existing.exists /\ existing.data.seasonality # <<>>)
    /\ pc[r] = "fetch_wiki"
         => ~(existing.exists /\ existing.data.wikipediaHtml # "")

\* C3 (state part): every stored document has a non-empty images list, and a call
\* of processSpecies that is past the test of images holds a non-empty list.
C3_ImagesNeverEmpty ==
  /\ \A id \in StoreIds : store[id].exists => store[id].data.images # <<>>
  /\ \A r \in Runs :
       pc[r] \in {"fetch_season", "wiki", "fetch_wiki", "upload"}
         => local[r].ps.images # <<>>

\* C3 (step part): the step a call takes once its resolved images list is empty
\* returns to the loop without a failure and leaves every document and the write
\* counts as they were.
C3_SkipStep ==
  \A r \in Runs :
    (pc[r] = "check" /\ local[r].ps.images = <<>> /\ pc'[r] # pc[r])
      => /\ pc'[r] = "loop"
         /\ store' = store
         /\ hist'.writes = hist.writes
         /\ hist'.run[r].failed = hist.run[r].failed

\* C3: a species whose resolved image list is empty is not written: no document is
\* created, an existing one is left as it was, and every document written has a
\* non-empty images sequence.
C3_NoWriteWithoutImages == []C3_ImagesNeverEmpty /\ [][C3_SkipStep]_vars

\* C3 witness: species 3 (no observation) was processed first, returned without
\* failure, and has no document.
C3_Witness ==
  \E r \in Runs :
    /\ pc[r] = "loop"
    /\ hist.run[r].started = <<3>>
    /\ hist.run[r].failed = 0
    /\ ~store["3"].exists

\* C4 (state part): in the loop of main the species started so far are the first
\* idx species of the shuffled list, in order; the shuffled list holds each listed
\* species once; when the loop is over every species was started.
C4_StartedInOrder ==
  \A r \in Runs :
    pc[r] \in LoopPcs \cup {"complete"} =>
      /\ hist.run[r].started = [i \in 1..local[r].idx |-> local[r].shuffled[i].id]
      /\ {local[r].shuffled[i].id : i \in DOMAIN local[r].shuffled} = ListedIds(r)
      /\ Len(local[r].shuffled) = Cardinality(ListedIds(r))
      /\ pc[r] = "complete" => local[r].idx = Len(local[r].shuffled)

\* C4 (step part): whatever happens to a species, the run stays in the loop or
\* reaches its end.
C4_LoopGoesOn ==
  \A r \in Runs : pc[r] \in LoopPcs => pc'[r] \in LoopPcs \cup {"complete"}

\* C4: an error raised while processing a species is caught at the loop of main and
\* does not abort the batch: every species of the shuffled list is started exactly
\* once.
C4_ErrorsDoNotAbort == []C4_StartedInOrder /\ [][C4_LoopGoesOn]_vars

\* C4 witness: a run reached the end of its loop over two species although the
\* first one failed, and the second too.
C4_Witness ==
  \E r \in Runs :
    /\ pc[r] = "complete"
    /\ Len(hist.run[r].started) = 2
    /\ hist.run[r].failed = 2

\* the failures the claim calls transient
TransientErrors == {E429, EConnReset, EConnAborted, ESocketHangUp, ETls}

\* C5: fetchWithRetry retries only transient failures; any other failure, at
\* whichever attempt, propagates as it is with no further request and no delay
\* after it (one request and no wait when it is the first attempt).
C5_OnlyTransientRetried ==
  \A r \in Runs :
    LET f == fetch[r] IN
    /\ f.st = "delay" => f.error \in TransientErrors
    /\ (f.st = "thrown" /\ f.attempt < f.retries) =>
         /\ f.error \in RequestErrors(f.url) \ TransientErrors
         /\ f.nreq = f.attempt + 1
         /\ f.waitTime = 0
         /\ f.waited = f.delayMs * (2 ^ f.attempt - 1)
         /\ f.attempt = 0 => (f.nreq = 1 /\ f.waited = 0)

\* C5 witness: after two retried attempts a DNS failure was thrown on the third
\* request.
C5_Witness ==
  \E r \in Runs :
    /\ fetch[r].st = "thrown"
    /\ fetch[r].error = EDns
    /\ fetch[r].attempt = 2
    /\ fetch[r].nreq = 3

\* C6: fetchWithRetry never issues more requests than its retry budget; when all
\* attempts failed transiently it throws the "Failed after" error, which is none
\* of the request errors; a success returns upstream's payload at once.
C6_RetryBudget ==
  \A r \in Runs :
    LET f == fetch[r] IN
    /\ f.nreq <= f.retries
    /\ (f.st # "none" /\ f.attempt >= f.retries) =>
         /\ f.st \in {"active", "thrown"}
         /\ f.nreq = f.retries
         /\ f.st = "thrown" =>
              /\ f.error = ExhaustedError(f.retries, f.url)
              /\ f.error \notin RequestErrors(f.url)
    /\ f.st = "returned" =>
         /\ f.data = Serve(f.url).data
         /\ f.nreq = f.attempt + 1

\* C6 witness: five transient failures used up the default budget.
C6_Witness ==
  \E r \in Runs :
    /\ fetch[r].st = "thrown"
    /\ fetch[r].retries = DefaultRetries
    /\ fetch[r].nreq = DefaultRetries
    /\ fetch[r].error = ExhaustedError(DefaultRetries, fetch[r].url)

\* C7: the wait after a transient failure of attempt k is base * 2^k, so the waits
\* before a success on request n add up to base * (2^(n-1) - 1): 3000 ms for
\* base 1000 and n = 3.
C7_BackoffDoubles ==
  \A r \in Runs :
    LET f == fetch[r] IN
    f.st # "none" =>
      /\ f.st = "delay" => f.waitTime = f.delayMs * 2 ^ f.attempt
      /\ f.waited = f.delayMs * (2 ^ f.attempt - 1)
      /\ f.st = "returned" => f.waited = f.delayMs * (2 ^ (f.nreq - 1) - 1)
      /\ (f.st = "returned" /\ f.delayMs = 1000 /\ f.nreq = 3) => f.waited = 3000

\* C7 witness: a success on the third request with base 1000 after 3000 ms of waits.
C7_Witness ==
  \E r \in Runs :
    /\ fetch[r].st = "returned"
    /\ fetch[r].delayMs = DefaultDelayMs
    /\ fetch[r].nreq = 3
    /\ fetch[r].waited = 3000

CeilDiv(a, b) == (a + b - 1) \div b

\* C8: for a listing of N entries, fetchAllINaturalistSpecies asks for pages
\* 1, 2, 3, ... in order, none twice or skipped, at most ceil(N/100)+1 of them, and
\* has returned once a short page came back.
C8_PagesBounded ==
  \A r \in Runs :
    pc[r] \in {"listing", "page_delay", "shuffle"} =>
      LET pages == hist.run[r].pages
          N == inat[Taxon(r).id].total
      IN /\ pages = [i \in 1..Len(pages) |-> i]
         /\ Len(pages) <= CeilDiv(N, 100) + 1
         /\ pc[r] = "listing" => local[r].page = Len(pages)
         /\ pc[r] = "shuffle" => Len(pages) * 100 > N

\* C8 witness: a listing of 200 entries was collected with pages 1, 2 and 3.
C8_Witness ==
  \E r \in Runs :
    /\ pc[r] = "shuffle"
    /\ inat[Taxon(r).id].total = 200
    /\ hist.run[r].pages = <<1, 2, 3>>

\* the places main can be at
MainPcs == {"idle", "select", "listing", "page_delay", "shuffle", "complete", "returned"}
             \cup LoopPcs

\* C9: the 202 response is sent before the first upstream request and the first
\* store access of the run, it is the only response, and whatever fails main ends
\* by returning.
C9_RespondedFirst ==
  \A r \in Runs :
    /\ resp[r] \in {0, Accepted}
    /\ pc[r] \in MainPcs
    /\ (\/ fetch[r].st # "none"
        \/ pc[r] \in LoopPcs \cup {"listing", "page_delay", "shuffle", "complete"}
        \/ hist.run[r].pages # <<>>
        \/ hist.run[r].started # <<>>) => resp[r] = Accepted
    /\ hist.outcome[r] # "none" => (pc[r] = "returned" /\ resp[r] = Accepted)

\* C9 witness: the listing failed after the response was sent and main returned.
C9_Witness ==
  \E r \in Runs :
    /\ hist.outcome[r] = "task failed"
    /\ pc[r] = "returned"
    /\ resp[r] = Accepted

\* run r is about to write the document id that an earlier processing stored, and
\* what it read of it is what is stored now: it processes the species again
ProcessesAgain(r, id) ==
  /\ pc[r] = "upload"
  /\ DocId(Species(r)) = id
  /\ store[id].exists
  /\ local[r].ps.existing.exists
  /\ local[r].ps.existing.data.images = store[id].data.images
  /\ local[r].ps.existing.data.seasonality = store[id].data.seasonality
  /\ local[r].ps.existing.data.wikipediaHtml = store[id].data.wikipediaHtml

\* C10 as claimed: a run that processes a species again leaves the stored images,
\* seasonality and wikipediaHtml of its document equal to what was stored.
C10_Idempotent ==
  [][\A id \in StoreIds : \A r \in Runs :
       (ProcessesAgain(r, id) /\ pc'[r] # pc[r]) =>
         /\ store'[id].data.images = store[id].data.images
         /\ store'[id].data.seasonality = store[id].data.seasonality
         /\ store'[id].data.wikipediaHtml = store[id].data.wikipediaHtml]_vars

\* C10 amended: a run that processes a species again leaves the stored images and
\* seasonality equal, and wikipediaHtml too unless it was stored empty and is
\* replaced by the markup of the page Wikipedia has for the species.
C10_IdempotentButEmptyWiki ==
  [][\A id \in StoreIds : \A r \in Runs :
       (ProcessesAgain(r, id) /\ pc'[r] # pc[r]) =>
         /\ store'[id].data.images = store[id].data.images
         /\ store'[id].data.seasonality = store[id].data.seasonality
         /\ \/ store'[id].data.wikipediaHtml = store[id].data.wikipediaHtml
            \/ /\ store[id].data.wikipediaHtml = ""
               /\ EncodedTitle(store[id].data.scientificName) \in WikiTitles
               /\ store'[id].data.wikipediaHtml =
                    WikiPage(EncodedTitle(store[id].data.scientificName))]_vars

\* C10 witness: a run that read the document of species 1 as another run stored it,
\* with an empty wikipediaHtml, is about to write it again with the page's markup.
C10_Witness ==
  \E r \in Runs :
    /\ ProcessesAgain(r, "1")
    /\ hist.writes["1"] = 1
    /\ store["1"].data.wikipediaHtml = ""
    /\ local[r].ps.wikipediaHtml = WikiPage(<<"Rana", "_", "pipiens">>)

\* a species yields an image when one of its observations has a photo with a URL
\* or a taxon default photo
YieldsImage(s) ==
  \E i \in DOMAIN Observations(s) :
    LET obs == Observations(s)[i] IN
    \/ \E j \in DOMAIN obs.photos : obs.photos[j].url # NoUrl
    \/ obs.taxon_default_photo_medium_url # NoUrl

\* C11: when the loop of a run ended with no error caught, each listed species has
\* a document exactly when it yields an image, stored under its id as a string;
\* when the collection was empty before the run, the documents are exactly those,
\* each written once (one document for the two frogs, one of which has no image).
C11_DocsAreSpeciesWithImages ==
  \A r \in Runs :
    (pc[r] = "complete" /\ hist.run[r].failed = 0) =>
      /\ \A s \in ListedIds(r) :
           /\ store[ToString(s)].exists <=> YieldsImage(s)
           /\ store[ToString(s)].exists => store[ToString(s)].data.id = ToString(s)
      /\ (\A q \in Runs \ {r} : pc[q] = "idle") =>
           /\ {id \in StoreIds : store[id].exists}
                = {ToString(s) : s \in {t \in ListedIds(r) : YieldsImage(t)}}
           /\ \A id \in StoreIds : hist.writes[id] = IF store[id].exists THEN 1 ELSE 0

\* C11 witness: the first run listed the two frogs, ended without error and left
\* exactly the document of species 1, none for species 3.
C11_Witness ==
  /\ pc[1] = "complete"
  /\ hist.run[1].failed = 0
  /\ pc[2] = "idle"
  /\ Len(hist.run[1].started) = 2
  /\ {id \in StoreIds : store[id].exists} = {"1"}

\* the entries of imageUrls are non-empty and no two are equal
DistinctNonEmpty(imageUrls) ==
  /\ \A i \in DOMAIN imageUrls : imageUrls[i] # NoUrl
  /\ \A i, j \in DOMAIN imageUrls : imageUrls[i] = imageUrls[j] => i = j

\* C12 as claimed (the step): the list fetchObservationImages returns has at most
\* maxImages entries, all of them non-empty and no two equal.
C12_Returned ==
  \A r \in Runs :
    (pc[r] = "fetch_images" /\ pc'[r] = "check") =>
      LET imageUrls == local'[r].ps.images IN
      /\ Len(imageUrls) <= local[r].ps.maxImages
      /\ DistinctNonEmpty(imageUrls)

C12_ReturnedOrOne ==
  \A r \in Runs :
    (pc[r] = "fetch_images" /\ pc'[r] = "check") =>
      LET imageUrls == local'[r].ps.images
          maxImages == local[r].ps.maxImages
      IN /\ Len(imageUrls) <= (IF maxImages >= 1 THEN maxImages ELSE 1)
         /\ DistinctNonEmpty(imageUrls)

PipelineSpeciesIds ==
  UNION { {PipelineInat[t].sp[i] : i \in DOMAIN PipelineInat[t].sp} : t \in TaxonIds }

\* C13: every stored document, and every document about to be written, has imageURL
\* equal to the species' default photo URL when the species has one, and to the
\* first entry of its own images otherwise, whether images was fetched or reused.
C13_ImageUrlChoice ==
  /\ \A s \in PipelineSpeciesIds :
       LET stored == store[ToString(s)]
           defaultImage == SpeciesEntry(s).default_photo_medium_url
       IN stored.exists =>
            stored.data.imageURL = IF defaultImage # NoUrl THEN defaultImage
                                   ELSE stored.data.images[1]
  /\ \A r \in Runs :
       pc[r] = "upload" =>
         LET defaultImage == Species(r).default_photo_medium_url
         IN local[r].ps.imageURL = IF defaultImage # NoUrl THEN defaultImage
                                   ELSE local[r].ps.images[1]

\* C13 witness: species 4 (no default photo) is about to be written by a run that
\* took images from the stored document, with its first image as imageURL.
C13_Witness ==
  \E r \in Runs :
    /\ pc[r] = "upload"
    /\ Species(r).id = 4
    /\ HasExistingImages(local[r].ps.existing)
    /\ local[r].ps.imageURL = PhotoUrl(40, "medium")
    /\ store["4"].data.imageURL = PhotoUrl(40, "medium")

\* C14 (step part): when the fetch of fetchWikipediaMobileHTML has thrown, whatever
\* the error, the call goes on to the upload with wikipediaHtml absent and the
\* images and seasonality it had, and no failure is counted; the upload that
\* follows stores the empty string.
C14_WikiFailureStep ==
  \A r \in Runs :
    /\ (pc[r] = "fetch_wiki" /\ fetch[r].st = "thrown" /\ pc'[r] # pc[r]) =>
         /\ pc'[r] = "upload"
         /\ local'[r].ps.wikipediaHtml = Null
         /\ local'[r].ps.images = local[r].ps.images
         /\ local'[r].ps.seasonalityData = local[r].ps.seasonalityData
         /\ hist'.run[r].failed = hist.run[r].failed
    /\ (pc[r] = "upload" /\ local[r].ps.wikipediaHtml = Null /\ pc'[r] # pc[r]
           /\ store' # store) =>
         /\ store'[DocId(Species(r))].exists
         /\ store'[DocId(Species(r))].data.wikipediaHtml = ""
         /\ store'[DocId(Species(r))].data.images = local[r].ps.images

\* C14 (state part): a call is never left at the Wikipedia fetch with nowhere to
\* go: a thrown fetch of any kind is one the call continues from.
C14_FailureKinds ==
  \A r \in Runs :
    (pc[r] = "fetch_wiki" /\ fetch[r].st = "thrown") =>
      \/ fetch[r].error = E404
      \/ fetch[r].error \in faults /\ ~IsRetryable(fetch[r].error)
      \/ fetch[r].error = ExhaustedError(fetch[r].retries, fetch[r].url)

\* C14: fetchWikipediaMobileHTML never propagates an error: on any failure of its
\* fetch it returns absence, and the species is still written, with wikipediaHtml
\* stored as the empty string.
C14_WikiFailureNotFatal == []C14_FailureKinds /\ [][C14_WikiFailureStep]_vars

\* C14 witness: species 1, whose page Wikipedia has, is stored with its images and
\* seasonality and an empty wikipediaHtml: the fetch of the page had failed.
C14_Witness ==
  /\ store["1"].exists
  /\ store["1"].data.wikipediaHtml = ""
  /\ store["1"].data.seasonality = Histogram(1)
  /\ store["1"].data.images # <<>>

\* the processSpecies calls of run r that were started and have not ended
InFlight(r) == Len(hist.run[r].started) - hist.run[r].ended

\* C15 (state part): a run has at most one processSpecies call in progress, and
\* has one exactly when it is at an await point of processSpecies.
C15_AtMostOneInFlight ==
  \A r \in Runs :
    /\ InFlight(r) \in {0, 1}
    /\ InFlight(r) = 1 <=> pc[r] \in SpeciesPcs

\* C15 (step part): the store read of a species begins only when every call
\* started before in the run has ended, and a store write belongs to the one call
\* in progress, which ends with it.
C15_NextAfterEnd ==
  \A r \in Runs :
    /\ Len(hist'.run[r].started) > Len(hist.run[r].started) =>
         /\ hist.run[r].ended = Len(hist.run[r].started)
         /\ hist'.run[r].ended = hist.run[r].ended
         /\ pc'[r] = "get"
    /\ (pc[r] = "upload" /\ pc'[r] # pc[r]) =>
         /\ hist'.run[r].ended = Len(hist.run[r].started)
         /\ hist'.run[r].started = hist.run[r].started

\* C15: within one run species are processed strictly one at a time: the read, the
\* fetches and the write of one species are over, or have failed, before the read
\* of the next begins.
C15_OneAtATime == []C15_AtMostOneInFlight /\ [][C15_NextAfterEnd]_vars

\* C15 witness: the second species of a run is at its upload after the call for
\* the first ended with an error.
C15_Witness ==
  \E r \in Runs :
    /\ pc[r] = "upload"
    /\ Len(hist.run[r].started) = 2
    /\ hist.run[r].ended = 1
    /\ hist.run[r].failed = 1

\* the photo URLs and the default-photo URLs of a payload
PhotoUrlsOf(observations) ==
  UNION { { observations[i].photos[j].url : j \in DOMAIN observations[i].photos } :
            i \in DOMAIN observations } \ {NoUrl}
FallbackUrlsOf(observations) ==
  { observations[i].taxon_default_photo_medium_url : i \in DOMAIN observations } \ {NoUrl}

HasMarker(url) == \E k \in DOMAIN url : url[k] = "square"

\* t is url with its first marker replaced by `medium` and nothing else changed
IsTransformOf(t, url) ==
  /\ Len(t) = Len(url)
  /\ \E k \in DOMAIN url :
       /\ url[k] = "square"
       /\ \A j \in 1..(k - 1) : url[j] # "square"
       /\ t[k] = "medium"
       /\ \A j \in DOMAIN url \ {k} : t[j] = url[j]

\* C16 as claimed: no photo URL that contains the marker `square` is an entry of
\* the list fetchObservationImages returns.
C16_ThumbnailNeverReturned ==
  [][\A r \in Runs :
       (pc[r] = "fetch_images" /\ pc'[r] = "check") =>
         \A url \in PhotoUrlsOf(fetch[r].data.results) :
           HasMarker(url) => ~Contains(local'[r].ps.images, url)]_vars

\* C16 amended: every entry of the returned list is a photo URL without the marker,
\* a photo URL with its first marker replaced by `medium`, or a default-photo URL
\* taken as it is; so a photo URL that contains the marker is an entry only when it
\* is also a default-photo URL or the transformed form of another photo URL.
C16_OnlyTransformedPhotos ==
  [][\A r \in Runs :
       (pc[r] = "fetch_images" /\ pc'[r] = "check") =>
         LET observations == fetch[r].data.results
             imageUrls == local'[r].ps.images
         IN /\ \A i \in DOMAIN imageUrls :
                 \/ \E url \in PhotoUrlsOf(observations) :
                      \/ ~HasMarker(url) /\ imageUrls[i] = url
                      \/ HasMarker(url) /\ IsTransformOf(imageUrls[i], url)
                 \/ imageUrls[i] \in FallbackUrlsOf(observations)
            /\ \A url \in PhotoUrlsOf(observations) :
                 (HasMarker(url) /\ Contains(imageUrls, url)) =>
                   \/ url \in FallbackUrlsOf(observations)
                   \/ \E other \in PhotoUrlsOf(observations) \ {url} :
                        IsTransformOf(url, other)]_vars

\* C16 witness: the thumbnail of photo 12 was returned as its medium form only, and
\* the URL with two markers with the first one replaced.
C16_Witness ==
  \E r \in Runs :
    /\ pc[r] = "check"
    /\ Contains(local[r].ps.images, PhotoUrl(12, "medium"))
    /\ ~Contains(local[r].ps.images, PhotoUrl(12, "square"))
    /\ Contains(local[r].ps.images, OnceReplacedUrl)
    /\ ~Contains(local[r].ps.images, TwiceSquareUrl)

\* the place in the raw listing d of the entry e of rank species
PlaceOf(d, e) == CHOOSE i \in DOMAIN d.sp : d.sp[i] = e.id

\* C17: when fetchAllINaturalistSpecies has taken a page in (it waits before the
\* next page, or has returned), allResults holds the entries of rank species of the
\* raw pages fetched so far and no other, in the order of the listing; it goes on
\* after a page of 100 raw entries, whatever the filter dropped, and has returned
\* exactly when the last page fetched is the first with fewer than 100.
C17_SpeciesOfPagesFetched ==
  \A r \in Runs :
    pc[r] \in {"page_delay", "shuffle"} =>
      LET d == inat[Taxon(r).id]
          fetched == Len(hist.run[r].pages)
          raw == IF fetched * 100 < d.total THEN fetched * 100 ELSE d.total
          allResults == local[r].allResults
      IN /\ \A k \in DOMAIN allResults :
              /\ allResults[k].rank = "species"
              /\ PlaceOf(d, allResults[k]) <= raw
              /\ allResults[k] = RawListing(d)[PlaceOf(d, allResults[k])]
              /\ k < Len(allResults) =>
                   PlaceOf(d, allResults[k]) < PlaceOf(d, allResults[k + 1])
         /\ Len(allResults) = Cardinality({i \in DOMAIN d.sp : i <= raw})
         /\ pc[r] = "page_delay" => fetched * 100 <= d.total
         /\ pc[r] = "shuffle" =>
              /\ (fetched - 1) * 100 <= d.total
              /\ d.total < fetched * 100

\* C17 witness: of a listing of 150 entries, a third of them not of rank species,
\* two pages were fetched (the first had 100 raw entries and fewer species) and the
\* 100 species were returned.
C17_Witness ==
  \E r \in Runs :
    /\ pc[r] = "shuffle"
    /\ inat[Taxon(r).id].total = 150
    /\ hist.run[r].pages = <<1, 2>>
    /\ Len(local[r].allResults) = 100

\* C18 (state part): while the listing is in progress the run has started no
\* species, and a listing fetch that has thrown did so on a non-retryable error or
\* with the retries used up.
C18_NothingStartedWhileListing ==
  \A r \in Runs :
    pc[r] \in {"select", "listing", "page_delay"} =>
      /\ hist.run[r].started = <<>>
      /\ hist.run[r].ended = 0
      /\ local[r].idx = 0
      /\ local[r].ps = NoSpeciesLocals
      /\ (pc[r] = "listing" /\ fetch[r].st = "thrown") =>
           \/ fetch[r].error \in faults /\ ~IsRetryable(fetch[r].error)
           \/ fetch[r].error = ExhaustedError(fetch[r].retries, fetch[r].url)

\* C18 (step part): when the fetch of a page of the listing has thrown, on the
\* first page or a later one, main returns after logging the failure: the entries
\* collected so far are dropped and no document is read or written.
C18_ListingFailureStep ==
  \A r \in Runs :
    (pc[r] = "listing" /\ fetch[r].st = "thrown" /\ pc'[r] # pc[r]) =>
      /\ pc'[r] = "returned"
      /\ hist'.outcome[r] = "task failed"
      /\ local'[r] = NoLocal
      /\ store' = store
      /\ hist'.writes = hist.writes

\* C18: if the listing fails on any page with a non-retryable or retry-exhausted
\* error, the run processes no species: what was fetched is discarded, the run
\* makes no store read or write, and main ends without throwing.
C18_ListingFailureEndsRun == []C18_NothingStartedWhileListing /\ [][C18_ListingFailureStep]_vars

\* C18 witness: the first run ended with "task failed" and the collection is still
\* empty, no document having been written.
C18_Witness ==
  /\ hist.outcome[1] = "task failed"
  /\ pc[1] = "returned"
  /\ local[1] = NoLocal
  /\ pc[2] = "idle"
  /\ \A id \in StoreIds : ~store[id].exists /\ hist.writes[id] = 0

\* C19 (state part): a seasonality or Wikipedia request is only issued, and the
\* upload only reached, by a call whose images list is not empty.
C19_RequestsNeedImages ==
  \A r \in Runs :
    (\/ fetch[r].url.api \in {"histogram", "wikipedia"}
     \/ pc[r] \in {"fetch_season", "wiki", "fetch_wiki", "upload"})
      => /\ pc[r] \in {"fetch_season", "wiki", "fetch_wiki", "upload"}
         /\ local[r].ps.images # <<>>

\* C19 (step part): a document is written only by the step that ends a call at its
\* upload, with the images, seasonality and wikipediaHtml the call resolved, one
\* document per step; a seasonality fetch that has thrown ends the call with the
\* store as it was; an empty images list ends the call with no request issued.
C19_WriteStep ==
  /\ \A r \in Runs :
       /\ (pc[r] = "fetch_season" /\ fetch[r].st = "thrown" /\ pc'[r] # pc[r]) =>
            /\ pc'[r] = "loop"
            /\ store' = store
            /\ hist'.writes = hist.writes
       /\ (pc[r] = "check" /\ local[r].ps.images = <<>> /\ pc'[r] # pc[r]) =>
            /\ pc'[r] = "loop"
            /\ fetch'[r] = NoFetch
  /\ \A id \in StoreIds :
       hist'.writes[id] # hist.writes[id] =>
         \E r \in Runs :
           /\ pc[r] = "upload" /\ pc'[r] = "loop"
           /\ id = DocId(Species(r))
           /\ hist'.writes[id] = hist.writes[id] + 1
           /\ hist'.run[r].ended = hist.run[r].ended + 1
           /\ store'[id].data.images = local[r].ps.images
           /\ store'[id].data.seasonality = local[r].ps.seasonalityData
           /\ store'[id].data.wikipediaHtml =
                IF local[r].ps.wikipediaHtml = Null THEN "" ELSE local[r].ps.wikipediaHtml
  /\ \A id \in StoreIds :
       (hist'.writes[id] = hist.writes[id] /\ store'[id] # store[id]) =>
         /\ hist'.editor[id] = store'[id].data.notes
         /\ store'[id] = [store[id] EXCEPT !.data.notes = store'[id].data.notes]
  /\ hist'.writes # hist.writes =>
       Cardinality({id \in StoreIds : hist'.writes[id] # hist.writes[id]}) = 1

\* C19: processSpecies writes at most once per call and only after images,
\* seasonality and wikipediaHtml are resolved; a seasonality fetch that fails after
\* the images were fetched leaves the store unchanged; with no image no seasonality
\* or Wikipedia request is issued.
C19_OneWriteAfterAllResolved == []C19_RequestsNeedImages /\ [][C19_WriteStep]_vars

\* C19 witness: the seasonality fetch of a species has thrown after its images were
\* fetched (it had no document), and the species still has no document.
C19_Witness ==
  \E r \in Runs :
    /\ pc[r] = "fetch_season"
    /\ fetch[r].st = "thrown"
    /\ local[r].ps.images # <<>>
    /\ ~local[r].ps.existing.exists
    /\ ~store[DocId(Species(r))].exists

\* C20: the stored images of a species, once non-empty, is never replaced by a
\* different value, also when two runs overlap and both process the species.
C20_ImagesNeverReplaced ==
  [][\A id \in StoreIds :
       (store[id].exists /\ store[id].data.images # <<>>)
         => store'[id].data.images = store[id].data.images]_vars

====
